---- MODULE Spec2Model ----
(***************************************************************************)
(* The memcached storage protocol of ccache's helper scripts:              *)
(*   upload-memcached.py  packs the four files of a cached result into one *)
(*                        blob and stores it, split into content-addressed *)
(*                        chunks plus an index blob when it is too big;    *)
(*   dump-memcached.py    fetches a key, reassembles a split value and     *)
(*                        unpacks the four sections.                       *)
(* Byte strings are sequences of numbers 0..255.  The memcached server is  *)
(* the function store from keys to byte strings.                           *)
(***************************************************************************)
EXTENDS Integers, Sequences, FiniteSets, TLC

\* ------------------------------------------------------------------ bounds
MaxTotalLen == 1
MaxFiles == 1
MaxEvictions == 1
MaxSplitLen == 5
MaxSplitSize == 3

DataBytes == {7}
Keys == {<<"k", "1">>, <<"k", "2">>}
Writers == {"w1", "w2"}
Readers == {"r1"}
SplitBytes == {0, 7}

\* The configurations checked, each the size limit and the length of the
\* file list of every uploader: two uploaders with a file each and values
\* of at most two chunks, or one uploader with MaxFiles files and values of
\* three chunks and more.
NoManifests == [w \in Writers |-> 0]

Setups ==
    { [max |-> 20, quota |-> [w \in Writers |-> 1], manifests |-> NoManifests],
      [max |-> 7, quota |-> [w \in Writers |-> IF w = "w1" THEN MaxFiles ELSE 0],
       manifests |-> NoManifests] }
\* ... and on a server that drops keys: one uploader
EvictSetups ==
    { [max |-> 20, quota |-> [w \in Writers |-> IF w = "w1" THEN MaxFiles ELSE 0],
       manifests |-> NoManifests],
      [max |-> 7, quota |-> [w \in Writers |-> IF w = "w1" THEN 1 ELSE 0],
       manifests |-> NoManifests] }

\* ... and for chunks that several values have in common: one uploader with
\* two files, and values of four chunks or values of which some are split and
\* some are not.
ShareSetups ==
    { [max |-> 6, quota |-> [w \in Writers |-> IF w = "w1" THEN 2 ELSE 0],
       manifests |-> NoManifests],
      [max |-> 20, quota |-> [w \in Writers |-> IF w = "w1" THEN 2 ELSE 0],
       manifests |-> NoManifests] }

\* ... and with .manifest files: one uploader with an object file, one with
\* a manifest.
ManifestSetups ==
    { [max |-> 20, quota |-> [w \in Writers |-> IF w = "w1" THEN 1 ELSE 0],
       manifests |-> [w \in Writers |-> IF w = "w1" THEN 0 ELSE 1]] }

\* ------------------------------------------------------- python primitives
\* The absent value (python None); no byte string equals it.
None == <<-1>>

Min(a, b) == IF a < b THEN a ELSE b

\* s[a:b]
Slice(s, a, b) ==
    IF a >= Len(s) \/ b <= a THEN <<>> ELSE SubSeq(s, a + 1, Min(b, Len(s)))

\* s[a:]
SliceFrom(s, a) == Slice(s, a, Len(s))

\* struct.pack('!I', n)
pack_I(n) ==
    << (n \div 16777216) % 256, (n \div 65536) % 256, (n \div 256) % 256, n % 256 >>

\* struct.unpack('!I', b)[0]; struct.error (here None) unless b has 4 bytes
unpack_I(b) ==
    IF Len(b) # 4 THEN None
    ELSE << b[1] * 16777216 + b[2] * 65536 + b[3] * 256 + b[4] >>

HexChars ==
    << "0", "1", "2", "3", "4", "5", "6", "7", "8", "9", "a", "b", "c", "d", "e", "f" >>

\* binascii.hexlify(b) / hashlib hexdigest()
RECURSIVE hexlify(_)
hexlify(b) ==
    IF b = <<>> THEN <<>>
    ELSE << HexChars[(b[1] \div 16) + 1], HexChars[(b[1] % 16) + 1] >> \o hexlify(Tail(b))

\* "%d" % n
RECURSIVE decimal(_)
decimal(n) ==
    IF n < 10 THEN << HexChars[n + 1] >>
    ELSE decimal(n \div 10) \o << HexChars[(n % 10) + 1] >>

\* One byte of the digest: the bytes of s at positions i, i+16, i+32, ...
\* mixed together.
RECURSIVE MixAt(_, _)
MixAt(s, i) ==
    IF i > Len(s) THEN 0 ELSE (s[i] + 31 * MixAt(s, i + 16)) % 256

\* the digest when subhash.update(subval) is left out
md4_noupdate(s) == [i \in 1..16 |-> 0]

\* hashlib.new('md4') digest of s: 16 bytes, a function of the bytes of s
\* alone.  Like md4 it can collide in general; NoDigestCollision states that
\* it does not on the chunks of equal length this model stores.
md4(s) == [i \in 1..16 |-> MixAt(s, i)]

MEMCCACHE_MAGIC == <<67, 67, 72, 49>>
MEMCCACHE_BIG == <<67, 67, 66, 77>>

\* ------------------------------------------------------------ the writer
set_blob(data) == pack_I(Len(data)) \o data

\* val = MAGIC + set_blob(obj) + set_blob(stderr) + set_blob(dia) + set_blob(dep)
Envelope(a) ==
    MEMCCACHE_MAGIC \o set_blob(a[1]) \o set_blob(a[2]) \o set_blob(a[3]) \o set_blob(a[4])

\* the size test with >= for >
needs_split_ge(v, max) == Len(v) >= max

\* if len(val) > MAX_VALUE_SIZE
needs_split(v, max) == Len(v) > max

\* range(0, len(s), n)
Starts(s, n) == {st \in 0..Len(s) : st < Len(s) /\ st % n = 0}

\* splitchunks whose chunks run one byte into the next one
splitchunks_overlap(s, n) ==
    [i \in 1..Cardinality(Starts(s, n)) |-> Slice(s, (i - 1) * n, (i - 1) * n + n + 1)]

\* splitchunks that stops before a last chunk shorter than n
splitchunks_whole(s, n) ==
    [i \in 1..(Len(s) \div n) |-> Slice(s, (i - 1) * n, (i - 1) * n + n)]

\* splitchunks over range(0, len(s) + 1, n): an empty chunk after a last full one
splitchunks_tail(s, n) ==
    [i \in 1..(Len(s) \div n + 1) |-> Slice(s, (i - 1) * n, (i - 1) * n + n)]

\* splitchunks(s, n) as the sequence of the chunks it yields
splitchunks(s, n) ==
    [i \in 1..Cardinality(Starts(s, n)) |-> Slice(s, (i - 1) * n, (i - 1) * n + n)]

\* a subkey made of the digest alone
subkey_of_hash(digest, size) == hexlify(digest)

\* a subkey made of the length alone
subkey_of_len(digest, size) == <<"-">> \o decimal(size)

\* "%s-%d" % (hexdigest, len)
subkey_of(digest, size) == hexlify(digest) \o <<"-">> \o decimal(size)

RECURSIVE Records(_)
Records(cs) ==
    IF cs = <<>> THEN <<>>
    ELSE md4(cs[1]) \o pack_I(Len(cs[1])) \o Records(Tail(cs))

\* the chunks cs without those that occurred before
RECURSIVE DropSeen(_, _)
DropSeen(cs, seen) ==
    IF cs = <<>> THEN <<>>
    ELSE IF cs[1] \in seen THEN DropSeen(Tail(cs), seen)
    ELSE <<cs[1]>> \o DropSeen(Tail(cs), seen \cup {cs[1]})

\* an index blob whose chunk count is len(val) / SPLIT_VALUE_SIZE rounded down
IndexBlob_floor(v, n) ==
    MEMCCACHE_BIG
        \o pack_I(Len(v) \div n) \o pack_I(16) \o pack_I(0) \o pack_I(Len(v))
        \o Records(splitchunks(v, n))

\* an index blob with one record for every entry of valmap
IndexBlob_perkey(v, n) ==
    MEMCCACHE_BIG
        \o pack_I((Len(v) + n - 1) \div n) \o pack_I(16) \o pack_I(0) \o pack_I(Len(v))
        \o Records(DropSeen(splitchunks(v, n), {}))

\* the index blob: header, then hash and size of every chunk in split order
IndexBlob(v, n) ==
    MEMCCACHE_BIG
        \o pack_I((Len(v) + n - 1) \div n) \o pack_I(16) \o pack_I(0) \o pack_I(Len(v))
        \o Records(splitchunks(v, n))

\* valmap without the last chunk
ValMap_nolast(v, n) ==
    LET cs == splitchunks(v, n)
        ks == {subkey_of(md4(cs[i]), Len(cs[i])) : i \in 1..(Len(cs) - 1)}
        last(k) == CHOOSE i \in 1..(Len(cs) - 1) :
                       /\ subkey_of(md4(cs[i]), Len(cs[i])) = k
                       /\ \A j \in 1..(Len(cs) - 1) :
                              subkey_of(md4(cs[j]), Len(cs[j])) = k => j <= i
    IN [k \in ks |-> cs[last(k)]]

\* valmap: subkey -> subval, later chunks replacing earlier ones of equal key
ValMap(v, n) ==
    LET cs == splitchunks(v, n)
        ks == {subkey_of(md4(cs[i]), Len(cs[i])) : i \in 1..Len(cs)}
        last(k) == CHOOSE i \in 1..Len(cs) :
                       /\ subkey_of(md4(cs[i]), Len(cs[i])) = k
                       /\ \A j \in 1..Len(cs) :
                              subkey_of(md4(cs[j]), Len(cs[j])) = k => j <= i
    IN [k \in ks |-> cs[last(k)]]

\* ------------------------------------------------------------ the reader
\* get_blob that drops the last byte of the section
get_blob_short(token, val) ==
    LET n == unpack_I(Slice(val, 0, 4))
    IN IF n = None THEN None ELSE Slice(token, 4, 3 + n[1])

\* get_blob(token), which reads the length from the global val
get_blob(token, val) ==
    LET n == unpack_I(Slice(val, 0, 4))
    IN IF n = None THEN None ELSE Slice(token, 4, 4 + n[1])

\* lines 75-85 without the assert of line 84
UnpackSections_noassert(v1) ==
      LET obj == get_blob(v1, v1)
      IN IF obj = None THEN [outcome |-> "struct.error", sections |-> None] ELSE
      LET v2 == SliceFrom(v1, 4 + Len(obj))
          stderr == get_blob(v2, v2)
      IN IF stderr = None THEN [outcome |-> "struct.error", sections |-> None] ELSE
      LET v3 == SliceFrom(v2, 4 + Len(stderr))
          dia == get_blob(v3, v3)
      IN IF dia = None THEN [outcome |-> "struct.error", sections |-> None] ELSE
      LET v4 == SliceFrom(v3, 4 + Len(dia))
          dep == get_blob(v4, v4)
      IN IF dep = None THEN [outcome |-> "struct.error", sections |-> None]
         ELSE [outcome |-> "ok", sections |-> <<obj, stderr, dia, dep>>]

\* Lines 75-85 of the dump, on val without its magic: the four sections.
UnpackSections(v1) ==
      LET obj == get_blob(v1, v1)
      IN IF obj = None THEN [outcome |-> "struct.error", sections |-> None] ELSE
      LET v2 == SliceFrom(v1, 4 + Len(obj))
          stderr == get_blob(v2, v2)
      IN IF stderr = None THEN [outcome |-> "struct.error", sections |-> None] ELSE
      LET v3 == SliceFrom(v2, 4 + Len(stderr))
          dia == get_blob(v3, v3)
      IN IF dia = None THEN [outcome |-> "struct.error", sections |-> None] ELSE
      LET v4 == SliceFrom(v3, 4 + Len(dia))
          dep == get_blob(v4, v4)
      IN IF dep = None THEN [outcome |-> "struct.error", sections |-> None] ELSE
      LET v5 == SliceFrom(v4, 4 + Len(dep))
      IN IF Len(v5) # 0 THEN [outcome |-> "AssertionError", sections |-> None]
         ELSE [outcome |-> "ok", sections |-> <<obj, stderr, dia, dep>>]

\* the dump unpacking whatever follows the first four bytes
Unpack_anymagic(val0) ==
    IF val0 = <<>> THEN [outcome |-> "key missing", sections |-> None]
    ELSE UnpackSections(SliceFrom(val0, 4))

\* Lines 72-89 of the dump: what is printed, and the sections unpacked.
Unpack(val0) ==
    IF val0 = <<>> THEN [outcome |-> "key missing", sections |-> None]
    ELSE IF Slice(val0, 0, 4) # MEMCCACHE_MAGIC
    THEN [outcome |-> "wrong magic", sections |-> None]
    ELSE UnpackSections(SliceFrom(val0, 4))

\* ----------------------------------------------------------------- state
VARIABLES
    store,            \* the memcached server: key -> value
    MAX_VALUE_SIZE,   \* the size above which a value is split
    quota,            \* uploader: .o files of its file list
    manifests,        \* uploader: .manifest files of its file list yet to handle
    wpc,              \* uploader: position in the loop over the files
    nfiles,           \* uploader: files handled so far
    key, art, val, buf, valmap,   \* uploader: variables of the .o branch
    unsent,           \* uploader: keys of valmap set_multi has yet to send
    notstored,        \* uploader: keys set_multi reports as not stored
    calls,            \* uploader: backend calls of the current file, in order
    rpc,              \* dump: position
    rkey, rval, rbuf, \* dump: key, val and buf
    rgot,             \* history: what mc.get(key) returned to the dump on line 54
    raw,              \* history: val as the dump had it on reaching line 72
    notfound,         \* dump: subkeys printed as "not found"
    result,           \* dump: how it ended and the sections it unpacked
    owner,            \* history: logical key -> artifact of the last set on it
    rexp,             \* history: owner of the dump's key when it was fetched
    raced,            \* history: artifact set on the dump's key during its loop, if any
    orphaned,         \* history: the dump's key had, when fetched, no value and
                      \*   an uploader stopped between its chunks and its index
    nevict            \* history: keys the server has dropped

wvars == <<wpc, nfiles, key, art, val, buf, valmap, unsent, notstored, calls>>
rvars == <<rpc, rkey, rval, rbuf, rgot, raw, notfound, result, rexp, orphaned>>
vars == <<store, MAX_VALUE_SIZE, quota, manifests, wvars, rvars, owner, raced, nevict>>

SPLIT_VALUE_SIZE == MAX_VALUE_SIZE

\* byte strings of length at most n over DataBytes
RECURSIVE SeqsUpTo(_)
SeqsUpTo(n) ==
    IF n = 0 THEN {<<>>}
    ELSE LET shorter == SeqsUpTo(n - 1)
         IN shorter \cup {Append(s, b) : s \in {t \in shorter : Len(t) = n - 1}, b \in DataBytes}

\* byte strings of length at most n over the bytes B
RECURSIVE StringsUpTo(_, _)
StringsUpTo(B, n) ==
    IF n = 0 THEN {<<>>}
    ELSE LET shorter == StringsUpTo(B, n - 1)
         IN shorter \cup {Append(s, b) : s \in {t \in shorter : Len(t) = n - 1}, b \in B}

\* what read_file can return for the four files of one cached result
Artifacts ==
    {a \in [1..4 -> SeqsUpTo(MaxTotalLen)] :
        Len(a[1]) + Len(a[2]) + Len(a[3]) + Len(a[4]) <= MaxTotalLen}

NoResult == [outcome |-> "running", sections |-> None]

InitWith(setups) ==
    /\ store = <<>>
    /\ \E s \in setups :
          MAX_VALUE_SIZE = s.max /\ quota = s.quota /\ manifests = s.manifests
    /\ wpc = [w \in Writers |-> "next"]
    /\ nfiles = [w \in Writers |-> 0]
    /\ key = [w \in Writers |-> <<>>]
    /\ art = [w \in Writers |-> None]
    /\ val = [w \in Writers |-> <<>>]
    /\ buf = [w \in Writers |-> <<>>]
    /\ valmap = [w \in Writers |-> <<>>]
    /\ unsent = [w \in Writers |-> {}]
    /\ notstored = [w \in Writers |-> {}]
    /\ calls = [w \in Writers |-> <<>>]
    /\ rpc = [r \in Readers |-> "start"]
    /\ rkey = [r \in Readers |-> <<>>]
    /\ rval = [r \in Readers |-> <<>>]
    /\ rbuf = [r \in Readers |-> <<>>]
    /\ rgot = [r \in Readers |-> None]
    /\ raw = [r \in Readers |-> None]
    /\ notfound = [r \in Readers |-> {}]
    /\ result = [r \in Readers |-> NoResult]
    /\ owner = <<>>
    /\ rexp = [r \in Readers |-> None]
    /\ raced = [r \in Readers |-> None]
    /\ orphaned = [r \in Readers |-> FALSE]
    /\ nevict = 0

Init == InitWith(Setups)

\* the values an uploader is given to split: the second one shorter ones
SplitInputs(w) ==
    StringsUpTo(SplitBytes, IF w = "w1" THEN MaxSplitLen ELSE MaxSplitLen - 2)

\* Two uploaders about to split a value each, for every value up to
\* MaxSplitLen bytes and every chunk size up to MaxSplitSize.
InitSplit ==
    /\ store = <<>>
    /\ MAX_VALUE_SIZE \in 1..MaxSplitSize
    /\ quota = [w \in Writers |-> 0]
    /\ manifests = NoManifests
    /\ wpc = [w \in Writers |-> "split"]
    /\ nfiles = [w \in Writers |-> 0]
    /\ key = [w \in Writers |-> IF w = "w1" THEN <<"k", "1">> ELSE <<"k", "2">>]
    /\ art = [w \in Writers |-> None]
    /\ val \in {f \in [Writers -> StringsUpTo(SplitBytes, MaxSplitLen)] :
                     \A w \in Writers : f[w] \in SplitInputs(w)}
    /\ buf = [w \in Writers |-> <<>>]
    /\ valmap = [w \in Writers |-> <<>>]
    /\ unsent = [w \in Writers |-> {}]
    /\ notstored = [w \in Writers |-> {}]
    /\ calls = [w \in Writers |-> <<>>]
    /\ rpc = [r \in Readers |-> "start"]
    /\ rkey = [r \in Readers |-> <<>>]
    /\ rval = [r \in Readers |-> <<>>]
    /\ rbuf = [r \in Readers |-> <<>>]
    /\ rgot = [r \in Readers |-> None]
    /\ raw = [r \in Readers |-> None]
    /\ notfound = [r \in Readers |-> {}]
    /\ result = [r \in Readers |-> NoResult]
    /\ owner = <<>>
    /\ rexp = [r \in Readers |-> None]
    /\ raced = [r \in Readers |-> None]
    /\ orphaned = [r \in Readers |-> FALSE]
    /\ nevict = 0

\* mc.get(k)
mc_get(k) == IF k \in DOMAIN store THEN store[k] ELSE None

\* a server that keeps the value set last and nothing else
mc_set_only(k, v) == [x \in {k} |-> v]

\* a set that leaves a key that has a value alone (mc.add)
mc_set_add(k, v) == IF k \in DOMAIN store THEN store ELSE [x \in DOMAIN store \cup {k} |-> IF x = k THEN v ELSE store[x]]

\* the server after a successful set of k to v
mc_set(k, v) == [x \in DOMAIN store \cup {k} |-> IF x = k THEN v ELSE store[x]]

\* ------------------------------------------------------- uploader actions
\* Lines 71-107: read the four files, build val, and for a big val the index
\* blob buf and the chunks valmap; the next statement is a backend call.
UploadObject(w) ==
    /\ wpc[w] = "next"
    /\ nfiles[w] < quota[w]
    /\ \E k \in Keys, a \in Artifacts :
        LET v == Envelope(a) IN
        /\ key' = [key EXCEPT ![w] = k]
        /\ art' = [art EXCEPT ![w] = a]
        /\ val' = [val EXCEPT ![w] = v]
        /\ IF needs_split(v, MAX_VALUE_SIZE)
           THEN /\ buf' = [buf EXCEPT ![w] = IndexBlob(v, SPLIT_VALUE_SIZE)]
                /\ valmap' = [valmap EXCEPT ![w] = ValMap(v, SPLIT_VALUE_SIZE)]
                /\ unsent' = [unsent EXCEPT ![w] = DOMAIN ValMap(v, SPLIT_VALUE_SIZE)]
                /\ wpc' = [wpc EXCEPT ![w] = "set_multi"]
           ELSE /\ UNCHANGED <<buf, valmap, unsent>>
                /\ wpc' = [wpc EXCEPT ![w] = "set_direct"]
    /\ UNCHANGED <<calls, notstored>>
    /\ UNCHANGED <<store, MAX_VALUE_SIZE, quota, manifests, nfiles, rvars, owner, raced, nevict>>

\* Lines 88-107 alone, on whatever val holds: the index header, then the
\* loop over splitchunks(val, SPLIT_VALUE_SIZE) that fills buf and valmap.
SplitValue(w) ==
    /\ wpc[w] = "split"
    /\ buf' = [buf EXCEPT ![w] = IndexBlob(val[w], SPLIT_VALUE_SIZE)]
    /\ valmap' = [valmap EXCEPT ![w] = ValMap(val[w], SPLIT_VALUE_SIZE)]
    /\ unsent' = [unsent EXCEPT ![w] = DOMAIN ValMap(val[w], SPLIT_VALUE_SIZE)]
    /\ wpc' = [wpc EXCEPT ![w] = "set_multi"]
    /\ UNCHANGED <<store, MAX_VALUE_SIZE, quota, manifests, nfiles, key, art, val, notstored,
                   calls, rvars, owner, raced, nevict>>

\* val with its first four bytes replaced by m
WithMagic(m, v) == m \o SliceFrom(v, 4)

\* a blob of the sections a whose length fields hold d
Framed(a, d) ==
    MEMCCACHE_MAGIC \o pack_I(d[1]) \o a[1] \o pack_I(d[2]) \o a[2]
                    \o pack_I(d[3]) \o a[3] \o pack_I(d[4]) \o a[4]

Lens(a) == [i \in 1..4 |-> Len(a[i])]

\* What open(...).read() can return for a .manifest file: any bytes.  The
\* contents checked are blobs and index blobs of a few cached results with
\* one thing changed, and a few short strings.
SampleArtifacts ==
    { << <<>>, <<>>, <<>>, <<>> >>, << <<7>>, <<>>, <<>>, <<>> >>, << <<>>, <<>>, <<>>, <<7>> >> }

ManifestContents ==
    LET n == SPLIT_VALUE_SIZE
        big == {a \in SampleArtifacts : Len(Envelope(a)) > n}
        hdr == << <<0, 0, 0, 16, 0, 0, 0, 0, 0, 0, 0, 21>>, <<>>, <<>>, <<>> >>
    IN  { <<>>, <<1>>, <<67, 67>> }
        \cup {WithMagic(<<67, 67, 72, 50>>, Envelope(a)) : a \in SampleArtifacts}
        \cup {WithMagic(MEMCCACHE_BIG, Envelope(a)) : a \in SampleArtifacts \cup {hdr}}
        \cup {Framed(a, [Lens(a) EXCEPT ![i] = @ + 1]) : a \in SampleArtifacts, i \in 1..4}
        \cup {Slice(Envelope(a), 0, Len(Envelope(a)) - 1) : a \in SampleArtifacts}
        \cup {Envelope(a) \o <<0>> : a \in SampleArtifacts}
        \cup {IndexBlob(Envelope(a), n) : a \in big}
        \cup {WithMagic(<<67, 67, 72, 50>>, IndexBlob(Envelope(a), n)) : a \in big}
        \cup {Slice(IndexBlob(Envelope(a), n), 0, 8) \o pack_I(15)
                  \o SliceFrom(IndexBlob(Envelope(a), n), 12) : a \in big}
        \cup {IndexBlob(Envelope(a), n) \o <<0>> : a \in big}
        \cup {Slice(IndexBlob(Envelope(a), n), 0, Len(IndexBlob(Envelope(a), n)) - 1) : a \in big}
        \cup {Slice(IndexBlob(Envelope(a), n), 0, 20) : a \in big}
        \cup {Slice(IndexBlob(Envelope(a), n), 0, 10) : a \in big}
        \cup {Slice(IndexBlob(Envelope(a), n), 0, 20)
                  \o SliceFrom(IndexBlob(Envelope(a), n), Len(IndexBlob(Envelope(a), n)) - 20) :
               a \in big}

\* Lines 117-125, the .manifest branch: the contents of the file are set
\* under the key as they are, an empty file is not set.
UploadManifest(w) ==
    /\ wpc[w] = "next"
    /\ manifests[w] > 0
    /\ \E k \in Keys, m \in ManifestContents :
        IF m = <<>>
        THEN UNCHANGED <<store, owner>>
        ELSE /\ store' = mc_set(k, m)
             /\ owner' = [x \in DOMAIN owner \ {k} |-> owner[x]]
    /\ manifests' = [manifests EXCEPT ![w] = @ - 1]
    /\ nfiles' = [nfiles EXCEPT ![w] = @ + 1]
    /\ UNCHANGED <<MAX_VALUE_SIZE, quota, wpc, key, art, val, buf, valmap, unsent, notstored,
                   calls, rvars, raced, nevict>>

\* set_multi has sent its last key: it returns the keys not stored
SetMultiReturn(w, ns) ==
    /\ calls' = [calls EXCEPT ![w] =
                    Append(@, [op |-> "set_multi", keys |-> DOMAIN valmap[w], failed |-> ns])]
    /\ wpc' = [wpc EXCEPT ![w] = "set_index"]

\* Line 108, mc.set_multi(valmap): the server stores one of the chunks.
SetMultiKey(w) ==
    /\ wpc[w] = "set_multi"
    /\ \E k \in unsent[w] :
        /\ store' = mc_set(k, valmap[w][k])
        /\ unsent' = [unsent EXCEPT ![w] = @ \ {k}]
        /\ IF unsent[w] = {k}
           THEN SetMultiReturn(w, notstored[w])
           ELSE UNCHANGED <<wpc, calls>>
    /\ UNCHANGED <<MAX_VALUE_SIZE, quota, manifests, nfiles, key, art, val, buf, valmap, notstored,
                   rvars, owner, raced, nevict>>

\* a set_multi that sends a key again when the server did not store it
SetMultiKeyFail_retry(w) ==
    /\ wpc[w] = "set_multi"
    /\ \E k \in unsent[w] :
        notstored' = [notstored EXCEPT ![w] = @ \cup {k}]
    /\ UNCHANGED <<store, MAX_VALUE_SIZE, quota, manifests, wpc, nfiles, key, art, val, buf, valmap,
                   unsent, calls, rvars, owner, raced, nevict>>

\* Line 108 when the server does not store one of the chunks.
SetMultiKeyFail(w) ==
    /\ wpc[w] = "set_multi"
    /\ \E k \in unsent[w] :
        /\ unsent' = [unsent EXCEPT ![w] = @ \ {k}]
        /\ notstored' = [notstored EXCEPT ![w] = @ \cup {k}]
        /\ IF unsent[w] = {k}
           THEN SetMultiReturn(w, notstored[w] \cup {k})
           ELSE UNCHANGED <<wpc, calls>>
    /\ UNCHANGED <<store, MAX_VALUE_SIZE, quota, manifests, nfiles, key, art, val, buf, valmap,
                   rvars, owner, raced, nevict>>

\* The variables of the .o branch are assigned again before the next file
\* reads them: the model forgets them when a file has been handled.
Forget(w) ==
    /\ key' = [key EXCEPT ![w] = <<>>]
    /\ art' = [art EXCEPT ![w] = None]
    /\ val' = [val EXCEPT ![w] = <<>>]
    /\ buf' = [buf EXCEPT ![w] = <<>>]
    /\ valmap' = [valmap EXCEPT ![w] = <<>>]
    /\ notstored' = [notstored EXCEPT ![w] = {}]

\* mc.set(key, v) on the logical key, which ends the handling of the file
SetLogical(w, v) ==
    /\ store' = mc_set(key[w], v)
    /\ calls' = [calls EXCEPT ![w] = <<>>]
    /\ owner' = [x \in DOMAIN owner \cup {key[w]} |-> IF x = key[w] THEN art[w] ELSE owner[x]]
    /\ raced' = [r \in Readers |->
                    IF rpc[r] = "loop" /\ rkey[r] = key[w] /\ rexp[r] # art[w]
                    THEN art[w] ELSE raced[r]]
    /\ wpc' = [wpc EXCEPT ![w] = "next"]
    /\ nfiles' = [nfiles EXCEPT ![w] = @ + 1]
    /\ Forget(w)
    /\ UNCHANGED <<MAX_VALUE_SIZE, quota, manifests, unsent, rvars, nevict>>

\* mc.set(key, buf) that does not wait for set_multi
SetIndex_early(w) ==
    /\ wpc[w] \in {"set_multi", "set_index"}
    /\ SetLogical(w, buf[w])

\* Line 109, mc.set(key, buf)
SetIndex(w) ==
    /\ wpc[w] = "set_index"
    /\ SetLogical(w, buf[w])

\* Line 111, mc.set(key, val)
SetDirect(w) ==
    /\ wpc[w] = "set_direct"
    /\ SetLogical(w, val[w])

\* The uploader process stops for good in the middle of a file.
Crash(w) ==
    /\ wpc[w] \in {"set_multi", "set_index", "set_direct"}
    /\ wpc' = [wpc EXCEPT ![w] = "crashed"]
    /\ UNCHANGED <<store, MAX_VALUE_SIZE, quota, manifests, nfiles, key, art, val, buf, valmap, unsent,
                   notstored, calls, rvars, owner, raced, nevict>>

\* The server drops a key to make room.
Evict(k) ==
    /\ k \in DOMAIN store
    /\ nevict < MaxEvictions
    /\ nevict' = nevict + 1
    /\ store' = [x \in DOMAIN store \ {k} |-> store[x]]
    /\ owner' = [x \in DOMAIN owner \ {k} |-> owner[x]]
    /\ UNCHANGED <<MAX_VALUE_SIZE, quota, manifests, wvars, rvars, raced>>

\* ----------------------------------------------------------- dump actions
\* The dump has ended with an uncaught exception e.
Failed(e) == [pc |-> "done", val |-> <<>>, buf |-> <<>>, raw |-> None,
              result |-> [outcome |-> e, sections |-> None]]

\* The dump has reached lines 72-89 with val = v; the model forgets val and
\* buf of a dump that has ended.
Ended(v) == [pc |-> "done", val |-> <<>>, buf |-> <<>>, raw |-> v, result |-> Unpack(v)]

\* lines 54-60 without the assert on the hash size of line 57
ReadValue_anyhashsize(v) ==
    IF v = None THEN Failed("TypeError")
    ELSE IF Slice(v, 0, 4) # MEMCCACHE_BIG THEN Ended(v)
    ELSE IF unpack_I(Slice(v, 4, 8)) = None THEN Failed("struct.error")
    ELSE IF unpack_I(Slice(v, 8, 12)) = None THEN Failed("struct.error")
    ELSE IF unpack_I(Slice(v, 12, 16)) = None THEN Failed("struct.error")
    ELSE IF unpack_I(Slice(v, 12, 16)) # <<0>> THEN Failed("AssertionError")
    ELSE IF unpack_I(Slice(v, 16, 20)) = None THEN Failed("struct.error")
    ELSE IF SliceFrom(v, 20) = <<>> THEN Ended(<<>>)
    ELSE [pc |-> "loop", val |-> SliceFrom(v, 20), buf |-> <<>>, raw |-> None,
          result |-> NoResult]

\* Lines 54-60 on the value v fetched for the key: an index blob has its
\* header read and checked, any other value is unpacked at once.
ReadValue(v) ==
    IF v = None THEN Failed("TypeError")
    ELSE IF Slice(v, 0, 4) # MEMCCACHE_BIG THEN Ended(v)
    ELSE IF unpack_I(Slice(v, 4, 8)) = None THEN Failed("struct.error")
    ELSE IF unpack_I(Slice(v, 8, 12)) = None THEN Failed("struct.error")
    ELSE IF unpack_I(Slice(v, 8, 12)) # <<16>> THEN Failed("AssertionError")
    ELSE IF unpack_I(Slice(v, 12, 16)) = None THEN Failed("struct.error")
    ELSE IF unpack_I(Slice(v, 12, 16)) # <<0>> THEN Failed("AssertionError")
    ELSE IF unpack_I(Slice(v, 16, 20)) = None THEN Failed("struct.error")
    ELSE IF SliceFrom(v, 20) = <<>> THEN Ended(<<>>)
    ELSE [pc |-> "loop", val |-> SliceFrom(v, 20), buf |-> <<>>, raw |-> None,
          result |-> NoResult]

\* Lines 63-66: the subkey of the first record of val (None: struct.error)
NextSubkey(v) ==
    LET size == unpack_I(Slice(v, 16, 20))
    IN IF size = None THEN None ELSE subkey_of(Slice(v, 0, 16), size[1])

\* the loop going on without an absent chunk
AddChunk_skip(v, b, subval) ==
    LET sv == IF subval = None THEN <<>> ELSE subval
    IN IF SliceFrom(v, 20) = <<>> THEN Ended(b \o sv)
       ELSE [pc |-> "loop", val |-> SliceFrom(v, 20), buf |-> b \o sv, raw |-> None,
             result |-> NoResult]

\* Lines 68-70 and, after the last record, 71-89: subval has been fetched for
\* the first record of val; buf + subval raises TypeError for an absent one.
AddChunk(v, b, subval) ==
    IF subval = None THEN Failed("TypeError")
    ELSE IF SliceFrom(v, 20) = <<>> THEN Ended(b \o subval)
    ELSE [pc |-> "loop", val |-> SliceFrom(v, 20), buf |-> b \o subval, raw |-> None,
          result |-> NoResult]

Become(r, st) ==
    /\ rpc' = [rpc EXCEPT ![r] = st.pc]
    /\ rval' = [rval EXCEPT ![r] = st.val]
    /\ rbuf' = [rbuf EXCEPT ![r] = st.buf]
    /\ raw' = [raw EXCEPT ![r] = st.raw]
    /\ result' = [result EXCEPT ![r] = st.result]

\* An uploader has stopped after set_multi returned, before the set of k.
StoppedBeforeIndex(k) ==
    \E w \in Writers : wpc[w] = "crashed" /\ key[w] = k /\ Len(calls[w]) = 1

\* Lines 53-60 (and 72-89 for a value that is no index blob).
Get(r) ==
    /\ rpc[r] = "start"
    /\ \E k \in Keys :
        /\ rkey' = [rkey EXCEPT ![r] = k]
        /\ rgot' = [rgot EXCEPT ![r] = mc_get(k)]
        /\ rexp' = [rexp EXCEPT ![r] = IF k \in DOMAIN store /\ k \in DOMAIN owner
                                       THEN owner[k] ELSE None]
        /\ orphaned' = [orphaned EXCEPT ![r] = k \notin DOMAIN store /\ StoppedBeforeIndex(k)]
        /\ Become(r, ReadValue(mc_get(k)))
    /\ UNCHANGED <<store, MAX_VALUE_SIZE, quota, manifests, wvars, notfound, owner, raced, nevict>>

\* Lines 62-70, one turn of the loop: fetch the next chunk the index lists.
GetChunk(r) ==
    /\ rpc[r] = "loop"
    /\ LET subkey == NextSubkey(rval[r]) IN
       IF subkey = None
       THEN /\ Become(r, Failed("struct.error"))
            /\ UNCHANGED notfound
       ELSE /\ notfound' = [notfound EXCEPT ![r] =
                               IF mc_get(subkey) \in {None, <<>>}
                               THEN @ \cup {subkey} ELSE @]
            /\ Become(r, AddChunk(rval[r], rbuf[r], mc_get(subkey)))
    /\ UNCHANGED <<store, MAX_VALUE_SIZE, quota, manifests, wvars, rkey, rgot, rexp, orphaned, owner,
                   raced, nevict>>

\* ---------------------------------------------------------- specifications
Next ==
    \/ \E w \in Writers : UploadObject(w)
    \/ \E w \in Writers : SetMultiKey(w)
    \/ \E w \in Writers : SetIndex(w)
    \/ \E w \in Writers : SetDirect(w)
    \/ \E r \in Readers : Get(r)
    \/ \E r \in Readers : GetChunk(r)

\* uploads and dumps on a server that stores every value and drops none
Spec == Init /\ [][Next]_vars

NextFail ==
    \/ Next
    \/ \E w \in Writers : SetMultiKeyFail(w)

\* ... on a server that may fail to store chunks
SpecFail == Init /\ [][NextFail]_vars

\* ... the same for one uploader
SpecFailOne == InitWith(EvictSetups) /\ [][NextFail]_vars

NextCrash ==
    \/ Next
    \/ \E w \in Writers : Crash(w)

\* ... with uploaders that may stop at any backend call
SpecCrash == Init /\ [][NextCrash]_vars

NextEvict ==
    \/ Next
    \/ \E k \in DOMAIN store : Evict(k)

\* ... on a server that may drop keys
SpecEvict == InitWith(EvictSetups) /\ [][NextEvict]_vars

\* ... with an uploader that sets one value after another
SpecShare == InitWith(ShareSetups) /\ [][Next]_vars

NextManifest ==
    \/ Next
    \/ \E w \in Writers : UploadManifest(w)

\* ... with a cache directory that holds .manifest files too
SpecManifest == InitWith(ManifestSetups) /\ [][NextManifest]_vars

NextSplit == \E w \in Writers : SplitValue(w)

\* the split of lines 88-107 applied to any value with any chunk size
SpecSplit == InitSplit /\ [][NextSplit]_vars

\* ------------------------------------------------------------ properties
\* The digest model does not collide on what is stored: two values of equal
\* length under content keys have different keys.
NoDigestCollision ==
    \A w \in Writers :
        \A k \in DOMAIN valmap[w] \cap DOMAIN store : valmap[w][k] = store[k]

\* the <<hash, size>> records of an index blob v, in order
RECURSIVE IndexRecords(_)
IndexRecords(t) ==
    IF Len(t) < 20 THEN <<>>
    ELSE << <<Slice(t, 0, 16), unpack_I(Slice(t, 16, 20))[1]>> >> \o IndexRecords(SliceFrom(t, 20))

IsIndex(v) == Slice(v, 0, 4) = MEMCCACHE_BIG

Chunked(a) == Len(Envelope(a)) > MAX_VALUE_SIZE

\* C1: a dump of a key that fetched the value an upload of an artifact had
\* set ends by unpacking exactly the four sections of that artifact, be the
\* value the blob itself or an index blob with chunks (server that stores
\* everything and drops nothing).
C1_PutGetRoundTrip ==
    \A r \in Readers :
        (rpc[r] = "done" /\ rexp[r] # None)
            => result[r] = [outcome |-> "ok", sections |-> rexp[r]]

C1_Witness ==
    \E r \in Readers :
        /\ rpc[r] = "done" /\ rexp[r] # None /\ Chunked(rexp[r])
        /\ result[r].outcome = "ok"
        /\ \E i \in 1..4 : rexp[r][i] # <<>>

\* C2: whenever a logical key holds an index blob, every chunk key the index
\* lists is on the server with bytes of the listed hash and length.
C2_IndexChunksPresent ==
    \A k \in Keys \cap DOMAIN store :
        IsIndex(store[k]) =>
            LET recs == IndexRecords(SliceFrom(store[k], 20)) IN
            /\ Len(recs) > 0
            /\ \A i \in 1..Len(recs) :
                LET sk == subkey_of(recs[i][1], recs[i][2]) IN
                /\ sk \in DOMAIN store
                /\ md4(store[sk]) = recs[i][1]
                /\ Len(store[sk]) = recs[i][2]

C2_Witness ==
    \E k \in Keys \cap DOMAIN store, w \in Writers :
        /\ IsIndex(store[k])
        /\ wpc[w] = "set_multi" /\ unsent[w] # DOMAIN valmap[w] /\ unsent[w] # {}

\* C3: the step of an uploader that sets the index blob under the logical key
\* is taken only when its set_multi has returned, having sent every chunk of
\* valmap; no chunk of that file is sent after it.
C3_IndexAfterChunks ==
    [][\A w \in Writers :
          /\ (nfiles'[w] # nfiles[w] /\ needs_split(val[w], MAX_VALUE_SIZE)) =>
                /\ unsent[w] = {}
                /\ Len(calls[w]) = 1 /\ calls[w][1].op = "set_multi"
                /\ calls[w][1].keys = DOMAIN ValMap(val[w], SPLIT_VALUE_SIZE)
                /\ store' = mc_set(key[w], buf[w])
          /\ (unsent'[w] # unsent[w] /\ unsent'[w] # DOMAIN valmap'[w]) =>
                nfiles'[w] = nfiles[w]
      ]_vars

C3_Witness ==
    \E k \in Keys \cap DOMAIN store :
        IsIndex(store[k]) /\ Len(IndexRecords(SliceFrom(store[k], 20))) >= 3

\* C4 (as claimed): an upload whose set_multi reported chunks as not stored
\* ends without changing the server: it does not set the index blob.
C4_IndexOnlyAfterSuccess ==
    [][\A w \in Writers :
          (Len(calls[w]) = 1 /\ calls[w][1].failed # {} /\ nfiles'[w] # nfiles[w])
              => store' = store
      ]_vars

\* C5: a dump whose key was set to another artifact while it fetched the
\* chunks of an index blob unpacks all four sections of the artifact it
\* fetched the index of, or all four of the one set meanwhile.
C5_OldOrNewInFull ==
    \A r \in Readers :
        (rpc[r] = "done" /\ raced[r] # None)
            => /\ result[r].outcome = "ok"
               /\ result[r].sections \in {rexp[r], raced[r]}

C5_Witness ==
    \E r \in Readers :
        /\ rpc[r] = "done" /\ raced[r] # None /\ result[r].outcome = "ok"
        /\ Chunked(raced[r]) /\ Chunked(rexp[r])

\* C6 (as claimed): when an uploader has stopped between the chunks and the
\* index of a key nothing was set on, the key has no value, and a dump that
\* then fetches the key prints "key missing".
C6_CrashLeavesMiss ==
    /\ \A w \in Writers :
          (wpc[w] = "crashed" /\ Len(calls[w]) = 1 /\ key[w] \notin DOMAIN owner)
              => key[w] \notin DOMAIN store
    /\ \A r \in Readers :
          (rpc[r] = "done" /\ orphaned[r]) => result[r].outcome = "key missing"

\* C7: a dump that found a chunk of the index absent has printed it as not
\* found and ends with the exception of line 70; it unpacks no sections.
C7_AbsentChunkFails ==
    \A r \in Readers :
        (rpc[r] = "done" /\ notfound[r] # {})
            => result[r] = [outcome |-> "TypeError", sections |-> None]

C7_Witness ==
    \E r \in Readers :
        /\ rpc[r] = "done" /\ notfound[r] # {} /\ rexp[r] # None
        /\ \E k \in DOMAIN store : k \notin Keys

\* C8 (as claimed): a dump of a key the server has no value for prints
\* "key missing" and raises no exception.
C8_MissIsNoError ==
    \A r \in Readers :
        (rpc[r] = "done" /\ rexp[r] = None) => result[r].outcome = "key missing"

\* C9: the step that ends an upload sets val itself under the key, no
\* set_multi having been called, exactly when len(val) <= MAX_VALUE_SIZE, and
\* otherwise sets an index blob after a set_multi of the chunks.
C9_Threshold ==
    [][\A w \in Writers :
          nfiles'[w] # nfiles[w] =>
              IF Len(val[w]) <= MAX_VALUE_SIZE
              THEN /\ store' = mc_set(key[w], val[w])
                   /\ ~IsIndex(val[w])
                   /\ calls[w] = <<>>
              ELSE /\ store' = mc_set(key[w], buf[w])
                   /\ IsIndex(buf[w])
                   /\ Len(calls[w]) = 1 /\ calls[w][1].op = "set_multi"
                   /\ \A k \in calls[w][1].keys : k \in DOMAIN store
      ]_vars

C9_Witness ==
    \E k \in Keys \cap DOMAIN store :
        /\ store[k] = Envelope(owner[k])
        /\ Len(store[k]) = MAX_VALUE_SIZE
        /\ DOMAIN store \subseteq Keys

\* C10: unpacking the blob packed from four sections gives the four sections
\* back in order, empty ones included.
C10_EnvelopeRoundTrip ==
    \A w \in Writers :
        art[w] # None => Unpack(val[w]) = [outcome |-> "ok", sections |-> art[w]]

C10_Witness ==
    \E w \in Writers :
        /\ art[w] # None /\ val[w] = Envelope(art[w])
        /\ art[w][1] = <<>> /\ art[w][3] # <<>>

\* the chunks cs joined in order
RECURSIVE Concat(_)
Concat(cs) == IF cs = <<>> THEN <<>> ELSE cs[1] \o Concat(Tail(cs))

\* the values vm holds for the records recs, in order (None when one is absent)
RECURSIVE Assembled(_, _)
Assembled(recs, vm) ==
    IF recs = <<>> THEN <<>>
    ELSE LET sk == subkey_of(recs[1][1], recs[1][2])
             rest == Assembled(Tail(recs), vm)
         IN IF sk \notin DOMAIN vm \/ rest = None THEN None ELSE vm[sk] \o rest

\* C11: for every byte string and every chunk size n >= 1, the chunks that
\* splitchunks yields, joined in order, are the byte string; so are the chunks
\* of valmap taken in the order of the records the split loop appended to buf.
C11_ChunkRoundTrip ==
    \A w \in Writers :
        /\ Concat(splitchunks(val[w], SPLIT_VALUE_SIZE)) = val[w]
        /\ wpc[w] = "set_multi" =>
              Assembled(IndexRecords(SliceFrom(buf[w], 20)), valmap[w]) = val[w]

C11_Witness ==
    \E w \in Writers :
        /\ wpc[w] = "set_multi"
        /\ Len(val[w]) > 2 * SPLIT_VALUE_SIZE /\ Len(val[w]) % SPLIT_VALUE_SIZE # 0
        /\ \E i, j \in 1..Len(val[w]) : val[w][i] # val[w][j]
        /\ Cardinality(DOMAIN valmap[w]) >= 3

\* C12: the key of a chunk depends on its bytes alone.  Chunks of equal bytes
\* have the same key in the valmap of either uploader, whatever value and
\* logical key they are split from; chunks of equal digest and different
\* length have different keys, so valmap holds both.  The key the dump derives
\* from a record of the index is the key the uploader gave that chunk.
C12_ContentAddressing ==
    \A w1, w2 \in Writers :
        (wpc[w1] = "set_multi" /\ wpc[w2] = "set_multi") =>
            /\ LET cs1 == splitchunks(val[w1], SPLIT_VALUE_SIZE)
               IN \A i \in 1..Len(cs1) :
                     LET sk == NextSubkey(SliceFrom(buf[w1], 20 * i)) IN
                     sk \in DOMAIN valmap[w1] /\ valmap[w1][sk] = cs1[i]
            /\ \A k1 \in DOMAIN valmap[w1], k2 \in DOMAIN valmap[w2] :
                  valmap[w1][k1] = valmap[w2][k2] => k1 = k2
            /\ LET cs1 == splitchunks(val[w1], SPLIT_VALUE_SIZE)
                   cs2 == splitchunks(val[w2], SPLIT_VALUE_SIZE)
               IN \A i \in 1..Len(cs1), j \in 1..Len(cs2) :
                     (md4(cs1[i]) = md4(cs2[j]) /\ Len(cs1[i]) # Len(cs2[j])) =>
                         \E k1 \in DOMAIN valmap[w1], k2 \in DOMAIN valmap[w2] :
                             /\ k1 # k2
                             /\ valmap[w1][k1] = cs1[i]
                             /\ valmap[w2][k2] = cs2[j]

C12_Witness ==
    \E w1, w2 \in Writers :
        /\ w1 # w2 /\ key[w1] # key[w2] /\ val[w1] # val[w2]
        /\ wpc[w1] = "set_multi" /\ wpc[w2] = "set_multi"
        /\ \E k \in DOMAIN valmap[w1] \cap DOMAIN valmap[w2] :
              valmap[w1][k] = valmap[w2][k] /\ Len(valmap[w1][k]) > 1
        /\ \E k1, k2 \in DOMAIN valmap[w1] :
              /\ md4(valmap[w1][k1]) = md4(valmap[w1][k2])
              /\ Len(valmap[w1][k1]) # Len(valmap[w1][k2])

\* C13 (as claimed): a dump of a key whose value was not set by an upload of
\* an object and whose first four bytes are not CCH1 never unpacks sections,
\* whatever the other bytes are.
C13_AlteredMagicFails ==
    \A r \in Readers :
        (/\ rpc[r] = "done" /\ rgot[r] # None /\ rexp[r] = None
         /\ Len(rgot[r]) >= 4 /\ Slice(rgot[r], 0, 4) # MEMCCACHE_MAGIC)
            => /\ result[r].sections = None
               /\ result[r].outcome # "ok"

\* C13 (amended): a dump of a key whose value starts with neither CCH1 nor
\* CCBM prints "wrong magic" and unpacks no sections, whatever the other
\* bytes are: a blob, an index blob or anything else.
C13_ForeignMagicRejected ==
    \A r \in Readers :
        (/\ rpc[r] = "done" /\ rgot[r] # None /\ rgot[r] # <<>>
         /\ Slice(rgot[r], 0, 4) \notin {MEMCCACHE_MAGIC, MEMCCACHE_BIG})
            => /\ result[r] = [outcome |-> "wrong magic", sections |-> None]
               /\ raw[r] = rgot[r]

C13_Witness ==
    \E r \in Readers, a \in SampleArtifacts :
        /\ rpc[r] = "done"
        /\ rgot[r] = WithMagic(<<67, 67, 72, 50>>, Envelope(a))
        /\ Unpack(Envelope(a)).outcome = "ok"
        /\ result[r].outcome = "wrong magic"

\* the length field of section i (1..4) of the blob v, the sections before
\* it being secs[1..i-1] (None when fewer than four bytes are left for it)
RECURSIVE FieldAt(_, _, _)
FieldAt(v, secs, i) ==
    IF i = 1 THEN unpack_I(Slice(v, 4, 8))
    ELSE FieldAt(SliceFrom(v, 4 + Len(secs[1])), Tail(secs), i - 1)

\* C14 (as claimed): a dump that unpacks four sections has found, for each of
\* them, as many bytes as its length field declares; when a length field
\* declares more bytes than the value has left, the dump fails.
C14_NoShortSection ==
    \A r \in Readers :
        (rpc[r] = "done" /\ raw[r] # None /\ result[r].outcome = "ok")
            => \A i \in 1..4 :
                  FieldAt(raw[r], result[r].sections, i) = <<Len(result[r].sections[i])>>

\* C15: a dump that unpacks four sections from a value has used all of it:
\* the value is exactly 4 + the sum of (4 + length) of the sections unpacked;
\* a blob followed by more bytes fails the assert of line 84.
C15_NoTrailingBytes ==
    \A r \in Readers :
        (rpc[r] = "done" /\ raw[r] # None) =>
            /\ result[r].outcome = "ok" =>
                  Len(raw[r]) = 4 + (4 + Len(result[r].sections[1]))
                                  + (4 + Len(result[r].sections[2]))
                                  + (4 + Len(result[r].sections[3]))
                                  + (4 + Len(result[r].sections[4]))
            /\ \A a \in SampleArtifacts \cup Artifacts :
                  (/\ Len(raw[r]) > Len(Envelope(a))
                   /\ Slice(raw[r], 0, Len(Envelope(a))) = Envelope(a))
                      => result[r] = [outcome |-> "AssertionError", sections |-> None]

C15_Witness ==
    \E r \in Readers, a \in SampleArtifacts :
        /\ rpc[r] = "done" /\ a[4] # <<>>
        /\ raw[r] = Envelope(a) \o <<0>>
        /\ result[r].outcome = "AssertionError"

\* C16: a dump of an index blob whose hash size field is not 16, or whose
\* records after the 20 bytes of header are not a whole number of 20 byte
\* records, ends with an exception: it never gets to unpack what it
\* assembled.
C16_IndexDecodeFails ==
    \A r \in Readers :
        (/\ rpc[r] = "done" /\ rgot[r] # None /\ IsIndex(rgot[r])
         /\ \/ unpack_I(Slice(rgot[r], 8, 12)) # <<16>>
            \/ Len(SliceFrom(rgot[r], 20)) % 20 # 0)
            => /\ raw[r] = None
               /\ result[r].sections = None
               /\ result[r].outcome \in {"AssertionError", "struct.error", "TypeError"}
               /\ unpack_I(Slice(rgot[r], 8, 12)) \notin {None, <<16>>}
                     => result[r].outcome = "AssertionError"

C16_Witness ==
    \E r \in Readers :
        /\ rpc[r] = "done" /\ rgot[r] # None /\ IsIndex(rgot[r])
        /\ unpack_I(Slice(rgot[r], 8, 12)) = <<16>>
        /\ Len(SliceFrom(rgot[r], 20)) > 40
        /\ Len(SliceFrom(rgot[r], 20)) % 20 # 0
        /\ notfound[r] = {}
        /\ result[r].outcome = "struct.error"

\* C17 (as claimed): a dump of a key that has a value, when the value (or
\* what the chunks of its index assemble to) does not start with CCH1, prints
\* "wrong magic"; "key missing" is printed for a key that has no value, never
\* for one that has.
C17_WrongMagicNotMiss ==
    \A r \in Readers :
        (rpc[r] = "done" /\ rgot[r] # None) =>
            /\ (raw[r] # None /\ Slice(raw[r], 0, 4) # MEMCCACHE_MAGIC)
                  => result[r].outcome = "wrong magic"
            /\ result[r].outcome # "key missing"

\* the keys of the server that are not logical keys: the chunks
ChunkKeys == DOMAIN store \ Keys

\* C18: a step of an upload leaves every chunk key of the server with the
\* bytes it has: a chunk key that is set again is set to the same bytes.
C18_ChunksImmutable ==
    [][\A k \in ChunkKeys : k \in DOMAIN store' /\ store'[k] = store[k]]_vars

C18_Witness ==
    \E w \in Writers :
        /\ wpc[w] = "set_multi" /\ nfiles[w] > 0
        /\ \E k \in DOMAIN valmap[w] \ unsent[w], j \in Keys \cap DOMAIN store :
              /\ owner[j] # art[w]
              /\ \E i \in 1..Len(splitchunks(Envelope(owner[j]), SPLIT_VALUE_SIZE)) :
                    splitchunks(Envelope(owner[j]), SPLIT_VALUE_SIZE)[i] = valmap[w][k]
              /\ store[k] = valmap[w][k]

\* C19: chunks of equal bytes, of one value or of the values of two logical
\* keys, are one entry of the server; the index blob of a key has a record
\* for every chunk of its value in order, equal chunks included, each chunk
\* is on the server, and a dump of the key unpacks the sections that were
\* uploaded under it.
C19_SharedChunks ==
    /\ \A x, y \in ChunkKeys : store[x] = store[y] => x = y
    /\ \A k \in Keys \cap DOMAIN store :
          IsIndex(store[k]) =>
              LET cs == splitchunks(Envelope(owner[k]), SPLIT_VALUE_SIZE)
                  recs == IndexRecords(SliceFrom(store[k], 20))
              IN /\ Len(recs) = Len(cs)
                 /\ \A i \in 1..Len(cs) :
                       /\ recs[i] = <<md4(cs[i]), Len(cs[i])>>
                       /\ subkey_of(recs[i][1], recs[i][2]) \in ChunkKeys
                       /\ store[subkey_of(recs[i][1], recs[i][2])] = cs[i]
                 /\ Unpack(Assembled(recs, store)) = [outcome |-> "ok", sections |-> owner[k]]
    /\ \A r \in Readers :
          (rpc[r] = "done" /\ rexp[r] # None /\ Chunked(rexp[r]))
              => /\ result[r] = [outcome |-> "ok", sections |-> rexp[r]]
                 /\ raw[r] = Envelope(rexp[r])

C19_Witness ==
    \E k1, k2 \in Keys \cap DOMAIN store, r \in Readers :
        /\ k1 # k2 /\ owner[k1] # owner[k2]
        /\ IsIndex(store[k1]) /\ IsIndex(store[k2])
        /\ LET recs1 == IndexRecords(SliceFrom(store[k1], 20))
               recs2 == IndexRecords(SliceFrom(store[k2], 20))
           IN /\ \E i \in 1..Len(recs1), j \in 1..Len(recs2) : recs1[i] = recs2[j]
              /\ \E i, j \in 1..Len(recs1) : i # j /\ recs1[i] = recs1[j]
        /\ rpc[r] = "done" /\ rkey[r] = k1 /\ rexp[r] = owner[k1]
        /\ result[r].outcome = "ok"

\* C20: a step of an upload removes no key from the server, and changes the
\* value of a logical key only when it is the set of that key by an uploader
\* handling a file of that key; every other logical key keeps its value,
\* however the steps of uploaders of different keys interleave.
C20_OtherKeysUntouched ==
    [][/\ DOMAIN store \subseteq DOMAIN store'
       /\ \A k \in Keys :
             (k \in DOMAIN store' /\ (k \notin DOMAIN store \/ store'[k] # store[k])) =>
                 \E w \in Writers :
                     /\ key[w] = k
                     /\ wpc[w] \in {"set_index", "set_direct"}
                     /\ nfiles'[w] = nfiles[w] + 1
                     /\ \A k2 \in (Keys \cap DOMAIN store) \ {k} : store'[k2] = store[k2]
      ]_vars

C20_Witness ==
    \E w \in Writers, k2 \in Keys \cap DOMAIN store :
        /\ wpc[w] = "set_multi" /\ unsent[w] # {} /\ unsent[w] # DOMAIN valmap[w]
        /\ k2 # key[w] /\ key[w] \notin DOMAIN store
        /\ IsIndex(store[k2]) /\ owner[k2] # art[w]
        /\ \E sk \in DOMAIN valmap[w] \ unsent[w] :
              \E i \in 1..Len(IndexRecords(SliceFrom(store[k2], 20))) :
                  LET rec == IndexRecords(SliceFrom(store[k2], 20))[i]
                  IN sk = subkey_of(rec[1], rec[2])

\* The dump run from the position st to its end on a server s that no
\* uploader changes meanwhile.
RECURSIVE RunDump(_, _)
RunDump(st, s) ==
    IF st.pc = "done" THEN st
    ELSE LET subkey == NextSubkey(st.val)
         IN IF subkey = None THEN Failed("struct.error")
            ELSE RunDump(AddChunk(st.val, st.buf,
                                  IF subkey \in DOMAIN s THEN s[subkey] ELSE None), s)

\* what a dump of the key k prints and unpacks on the server s
DumpOf(s, k) == RunDump(ReadValue(IF k \in DOMAIN s THEN s[k] ELSE None), s).result

\* C21: when an upload sets a key that has a value, a dump of that key on the
\* server as the upload leaves it unpacks the sections of the new artifact,
\* whether the old and the new value are blobs or index blobs with chunks.
C21_OverwriteReplaces ==
    [][\A w \in Writers :
          (nfiles'[w] # nfiles[w] /\ key[w] \in DOMAIN store) =>
              /\ DumpOf(store', key[w]) = [outcome |-> "ok", sections |-> art[w]]
              /\ owner'[key[w]] = art[w]
      ]_vars

C21_Witness ==
    \E w \in Writers, k \in Keys, r \in Readers :
        /\ nfiles[w] = 2 /\ Keys \cap DOMAIN store = {k}
        /\ ~IsIndex(store[k]) /\ ChunkKeys # {}
        /\ rpc[r] = "done" /\ rkey[r] = k /\ rgot[r] = store[k]
        /\ result[r] = [outcome |-> "ok", sections |-> owner[k]]

\* C22: a value longer than the limit is split at the limit into
\* ceil(len / limit) chunks that follow one another in the value without gap
\* or overlap; all but the last have the length of the limit, the last one
\* holds the remaining bytes and is not empty.  Every chunk of valmap is
\* between 1 byte and the limit long.
C22_ChunkSizes ==
    \A w \in Writers :
        (wpc[w] = "set_multi" /\ Len(val[w]) > MAX_VALUE_SIZE) =>
            LET n == SPLIT_VALUE_SIZE
                L == Len(val[w])
                c == (L + n - 1) \div n
                cs == splitchunks(val[w], n)
            IN /\ n = MAX_VALUE_SIZE
               /\ Len(cs) = c
               /\ \A i \in 1..Len(cs) :
                     /\ i < c => Len(cs[i]) = n
                     /\ \A j \in 1..Len(cs[i]) :
                           (i - 1) * n + j <= L /\ cs[i][j] = val[w][(i - 1) * n + j]
               /\ Len(cs[c]) = L - (c - 1) * n
               /\ Len(cs[c]) >= 1
               /\ {valmap[w][k] : k \in DOMAIN valmap[w]} = {cs[i] : i \in 1..Len(cs)}
               /\ \A k \in DOMAIN valmap[w] :
                     Len(valmap[w][k]) >= 1 /\ Len(valmap[w][k]) <= MAX_VALUE_SIZE

C22_Witness ==
    \E w \in Writers :
        /\ wpc[w] = "set_multi"
        /\ SPLIT_VALUE_SIZE >= 2
        /\ Len(val[w]) = 2 * SPLIT_VALUE_SIZE
        /\ Cardinality(DOMAIN valmap[w]) = 2

\* C23: the uploader makes a fixed sequence of write calls for a file and
\* repeats none.  A value within the limit: one set of the logical key, no
\* set_multi before it.  A longer value: one set_multi of all the chunk keys,
\* in which every key is sent once, whether or not the server stores it,
\* then one set of the logical key; the file is done with that set.
C23_FixedWriteCalls ==
    [][\A w \in Writers :
          /\ nfiles'[w] # nfiles[w] =>
                /\ nfiles'[w] = nfiles[w] + 1
                /\ wpc'[w] = "next"
                /\ DOMAIN store' = DOMAIN store \cup {key[w]}
                /\ \A x \in DOMAIN store \ {key[w]} : store'[x] = store[x]
                /\ IF needs_split(val[w], MAX_VALUE_SIZE)
                   THEN /\ store'[key[w]] = buf[w]
                        /\ Len(calls[w]) = 1 /\ calls[w][1].op = "set_multi"
                        /\ calls[w][1].keys = DOMAIN valmap[w]
                        /\ calls[w][1].failed = notstored[w]
                        /\ unsent[w] = {}
                   ELSE /\ store'[key[w]] = val[w]
                        /\ calls[w] = <<>>
          /\ (nfiles'[w] = nfiles[w] /\ wpc[w] = "set_multi"
                  /\ <<unsent[w], notstored[w], calls[w]>> # <<unsent'[w], notstored'[w], calls'[w]>>) =>
                \E k \in unsent[w] :
                    /\ unsent'[w] = unsent[w] \ {k}
                    /\ \/ store' = mc_set(k, valmap[w][k]) /\ notstored'[w] = notstored[w]
                       \/ store' = store /\ notstored'[w] = notstored[w] \cup {k}
                    /\ calls[w] = <<>>
                    /\ Len(calls'[w]) = (IF unsent'[w] = {} THEN 1 ELSE 0)
                    /\ wpc'[w] = (IF unsent'[w] = {} THEN "set_index" ELSE "set_multi")
      ]_vars

C23_Witness ==
    \E k \in Keys \cap DOMAIN store :
        /\ \A w \in Writers : wpc[w] = "next" /\ nfiles[w] = quota[w]
        /\ IsIndex(store[k])
        /\ LET recs == IndexRecords(SliceFrom(store[k], 20)) IN
           /\ \E i \in 1..Len(recs) : subkey_of(recs[i][1], recs[i][2]) \notin DOMAIN store
           /\ \E i \in 1..Len(recs) : subkey_of(recs[i][1], recs[i][2]) \in DOMAIN store

\* the sum of the sizes of the records recs
RECURSIVE SizeSum(_)
SizeSum(recs) == IF recs = <<>> THEN 0 ELSE recs[1][2] + SizeSum(Tail(recs))

\* C24: the index blob built for a value longer than the limit starts with
\* CCBM; its count field is the number of 20-byte records after the header,
\* its hash size field is 16 and its reserved field 0; the i-th record holds
\* the digest and the length of the i-th chunk of the value; the lengths of
\* the records add up to the total length field, which is len(val).
C24_IndexSelfConsistent ==
    \A w \in Writers :
        (wpc[w] = "set_multi" /\ Len(val[w]) > MAX_VALUE_SIZE) =>
            LET recs == IndexRecords(SliceFrom(buf[w], 20))
                cs == splitchunks(val[w], SPLIT_VALUE_SIZE)
            IN /\ Slice(buf[w], 0, 4) = MEMCCACHE_BIG
               /\ Len(buf[w]) = 20 + 20 * Len(recs)
               /\ unpack_I(Slice(buf[w], 4, 8)) = <<Len(recs)>>
               /\ unpack_I(Slice(buf[w], 8, 12)) = <<16>>
               /\ unpack_I(Slice(buf[w], 12, 16)) = <<0>>
               /\ unpack_I(Slice(buf[w], 16, 20)) = <<SizeSum(recs)>>
               /\ SizeSum(recs) = Len(val[w])
               /\ Len(recs) = Len(cs)
               /\ \A i \in 1..Len(recs) :
                     /\ Len(recs[i][1]) = 16
                     /\ recs[i] = <<md4(cs[i]), Len(cs[i])>>

C24_Witness ==
    \E w \in Writers :
        /\ wpc[w] = "set_multi"
        /\ Len(val[w]) > MAX_VALUE_SIZE /\ Len(val[w]) % SPLIT_VALUE_SIZE # 0
        /\ Len(buf[w]) = 80
        /\ unpack_I(Slice(buf[w], 4, 8)) = <<3>>
        /\ IndexRecords(SliceFrom(buf[w], 20))[1] # IndexRecords(SliceFrom(buf[w], 20))[2]

\* C25: every value a step of the uploader sets under a key of the server, a
\* chunk, an index blob, a blob or the contents of a .manifest file, is at
\* most MAX_VALUE_SIZE bytes long.
C25_ValuesWithinLimit ==
    [][\A k \in DOMAIN store' :
          (k \notin DOMAIN store \/ store'[k] # store[k]) => Len(store'[k]) <= MAX_VALUE_SIZE
      ]_vars

====
